---- MODULE Spec2Model ----
(***************************************************************************)
(* Realm cost calculator.  Three specifications share this module:         *)
(*   Spec          the estimation engine of src/main.ts (summarizeSources,  *)
(*                 calculate and the combination-override table);           *)
(*   SpecKeys      the same engine, called with one source and with ids     *)
(*                 built from the parts of the override key;                *)
(*   SpecProfiles  getEndpoint and the functions of                         *)
(*                 src/data/traffic-profiles.ts;                            *)
(*   SpecUi        the page: initialize, applyRecommendation, update and    *)
(*                 the event listeners of the form controls of src/main.ts; *)
(*   SpecExport    the page with handleExportPdf: the same listeners on     *)
(*                 fewer inputs, the export click and the export that       *)
(*                 settles later.                                           *)
(* Each specification holds the variables of the others at fixed values.    *)
(*                                                                         *)
(* JavaScript numbers are modelled as exact rationals [n, d] in lowest     *)
(* terms with d > 0; a division by zero yields the IEEE results NaN        *)
(* (0/0) and +-Infinity (x/0), written with d = 0.  Floating-point         *)
(* rounding is not modelled; overflow beyond the largest double is         *)
(* modelled for the one value Huge.                                        *)
(***************************************************************************)
EXTENDS Integers, Sequences, FiniteSets, TLC

VARIABLES
    selectedSources,   \* CalculatorState.sources: sequence of Endpoint
    destination,       \* CalculatorState.destination: Endpoint
    dailyTraffic,      \* CalculatorState.dailyTraffic: number
    summary,           \* outcome of the call summarizeSources(selectedSources)
    result,            \* outcome of the call calculate({sources, destination, dailyTraffic})
    request,           \* a call of a catalog or traffic-profile function with its arguments
    response,          \* outcome of that call
    ui                 \* the page: form controls and module state of src/main.ts

engineVars == <<selectedSources, destination, dailyTraffic, summary, result>>

profileVars == <<request, response>>

vars == <<engineVars, profileVars, ui>>

-----------------------------------------------------------------------------
(* Numbers *)
(* A number is a record [h, l] of two exact rationals and stands for       *)
(* h * 2^20 + l.  Event counts of gigabyte and terabyte volumes exceed the *)
(* integers the model checker can hold; the h limb carries their multiples *)
(* of 2^20 (KB_PER_GIGABYTE).  Ordinary numbers have h = 0.  NaN and       *)
(* +-Infinity are written in the l limb with denominator 0.                *)

Abs(x) == IF x < 0 THEN -x ELSE x

Sign(x) == IF x < 0 THEN -1 ELSE IF x > 0 THEN 1 ELSE 0

RECURSIVE GCD(_, _)
GCD(a, b) == IF b = 0 THEN a ELSE GCD(b, a % b)

Norm(n, d) ==
    LET g == GCD(Abs(n), d)
    IN  [n |-> n \div g, d |-> d \div g]

LimbBase == 1048576

\* An operation outside the supported range stops the evaluation
Unsupported == CHOOSE x \in {} : TRUE

QZero == [n |-> 0, d |-> 1]

QNaN == [n |-> 0, d |-> 0]

QAdd(a, b) ==
    IF a.d = 0 /\ b.d = 0 THEN (IF a.n = b.n THEN a ELSE QNaN)
    ELSE IF a.d = 0 THEN a
    ELSE IF b.d = 0 THEN b
    ELSE LET g == GCD(a.d, b.d)
         IN  Norm(a.n * (b.d \div g) + b.n * (a.d \div g), (a.d \div g) * b.d)

QNeg(a) == [n |-> -a.n, d |-> a.d]

QMul(a, b) ==
    IF a.d = 0 \/ b.d = 0
    THEN [n |-> Sign(a.n) * Sign(b.n), d |-> 0]
    ELSE LET g1 == GCD(Abs(a.n), b.d)
             g2 == GCD(Abs(b.n), a.d)
         IN  [n |-> (a.n \div g1) * (b.n \div g2), d |-> (a.d \div g2) * (b.d \div g1)]

QDiv(a, b) ==
    IF b.d = 0
    THEN (IF a.d = 0 \/ b.n = 0 THEN QNaN ELSE QZero)
    ELSE IF b.n = 0
    THEN [n |-> Sign(a.n), d |-> 0]
    ELSE IF a.d = 0
    THEN [n |-> Sign(a.n) * Sign(b.n), d |-> 0]
    ELSE QMul(a, [n |-> b.d * Sign(b.n), d |-> Abs(b.n)])

QLess(a, b) ==
    /\ a # QNaN
    /\ b # QNaN
    /\ IF a.d = 0 /\ b.d = 0 THEN a.n < b.n
       ELSE IF a.d = 0 THEN a.n < 0
       ELSE IF b.d = 0 THEN b.n > 0
       ELSE QAdd(a, QNeg(b)).n < 0

\* floor(a + 1/2) for a finite rational
QRound(a) == (2 * a.n + a.d) \div (2 * a.d)

QFloor(a) == a.n \div a.d

Small(q) == [h |-> QZero, l |-> q]

Rat(n, d) == Small(Norm(n, d))

Num(k) == Small([n |-> k, d |-> 1])

NaN == Small(QNaN)

IsFinite(a) == a.l.d > 0

\* Sign of a finite number
SignOf(a) ==
    IF a.h.n = 0 THEN Sign(a.l.n)
    ELSE IF a.l.n = 0 \/ Sign(a.l.n) = Sign(a.h.n) THEN Sign(a.h.n)
    ELSE LET high == QMul([n |-> Abs(a.h.n), d |-> a.h.d], [n |-> LimbBase, d |-> 1])
             low == [n |-> Abs(a.l.n), d |-> a.l.d]
         IN  IF high = low THEN 0
             ELSE IF QLess(low, high) THEN Sign(a.h.n) ELSE Sign(a.l.n)

\* JavaScript "+"
RatAdd(a, b) ==
    IF ~IsFinite(a) \/ ~IsFinite(b)
    THEN Small(QAdd(a.l, b.l))
    ELSE [h |-> QAdd(a.h, b.h), l |-> QAdd(a.l, b.l)]

RatNeg(a) == [h |-> QNeg(a.h), l |-> QNeg(a.l)]

\* JavaScript "-"
RatSub(a, b) == RatAdd(a, RatNeg(b))

\* A finite double above Number.MAX_VALUE / 2, such as 1e308: the product
\* of it and a factor of magnitude 2 or more is beyond the largest double
Huge == [h |-> [n |-> 1, d |-> 0], l |-> QZero]

\* |x| >= 2 for a finite x
AtLeastTwo(x) ==
    \/ x.h.n # 0
    \/ ~QLess([n |-> Abs(x.l.n), d |-> x.l.d], [n |-> 2, d |-> 1])

\* Huge * x: +-Infinity by overflow when |x| >= 2
HugeTimes(x) ==
    IF SignOf(x) = 0 THEN Small(QZero)
    ELSE IF AtLeastTwo(x) THEN Small([n |-> SignOf(x), d |-> 0])
    ELSE Unsupported

\* JavaScript "*"
RatMul(a, b) ==
    IF ~IsFinite(a) \/ ~IsFinite(b)
    THEN Small([n |-> (IF IsFinite(a) THEN SignOf(a) ELSE Sign(a.l.n))
                       * (IF IsFinite(b) THEN SignOf(b) ELSE Sign(b.l.n)),
                d |-> 0])
    ELSE IF a = Huge THEN HugeTimes(b)
    ELSE IF b = Huge THEN HugeTimes(a)
    ELSE IF a.h.n = 0 THEN [h |-> QMul(b.h, a.l), l |-> QMul(b.l, a.l)]
    ELSE IF b.h.n = 0 THEN [h |-> QMul(a.h, b.l), l |-> QMul(a.l, b.l)]
    ELSE Unsupported

\* JavaScript "/": x/0 is +-Infinity and 0/0 is NaN
RatDiv(a, b) ==
    IF ~IsFinite(b)
    THEN (IF ~IsFinite(a) \/ b = NaN THEN NaN ELSE Num(0))
    ELSE IF SignOf(b) = 0
    THEN Small([n |-> (IF IsFinite(a) THEN SignOf(a) ELSE Sign(a.l.n)), d |-> 0])
    ELSE IF ~IsFinite(a)
    THEN Small([n |-> Sign(a.l.n) * SignOf(b), d |-> 0])
    ELSE IF b.h.n = 0
    THEN [h |-> QDiv(a.h, b.l), l |-> QDiv(a.l, b.l)]
    ELSE IF b.l.n = 0
    THEN Small(QAdd(QDiv(a.h, b.h),
                    QDiv(QDiv(a.l, b.h), [n |-> LimbBase, d |-> 1])))
    ELSE IF a.h.n = 0 /\ a.l.n = 0
    THEN Num(0)
    ELSE IF QDiv(a.h, b.h) = QDiv(a.l, b.l)
    THEN Small(QDiv(a.h, b.h))
    ELSE Unsupported

\* JavaScript "<" and ">": every comparison with NaN is false
RatLess(a, b) ==
    /\ a # NaN
    /\ b # NaN
    /\ IF ~IsFinite(a) \/ ~IsFinite(b)
       THEN QLess(IF IsFinite(a) THEN QZero ELSE a.l, IF IsFinite(b) THEN QZero ELSE b.l)
       ELSE IF a.h.n = 0 /\ b.h.n = 0
       THEN QLess(a.l, b.l)
       ELSE SignOf(RatSub(a, b)) < 0

RatGreater(a, b) == RatLess(b, a)

\* Math.min(a, b)
RatMin(a, b) ==
    IF a = NaN \/ b = NaN THEN NaN
    ELSE IF RatLess(b, a) THEN b ELSE a

\* Math.max(a, b)
RatMax(a, b) ==
    IF a = NaN \/ b = NaN THEN NaN
    ELSE IF RatLess(a, b) THEN b ELSE a

\* Math.round(a) for a finite a >= 0: the nearest integer, halves upwards
RatRound(a) ==
    IF a.h.n = 0
    THEN Num(QRound(a.l))
    ELSE LET whole == QFloor(a.h)
             part == QMul([n |-> a.h.n - whole * a.h.d, d |-> a.h.d],
                          [n |-> LimbBase, d |-> 1])
             rest == QRound(QAdd(part, a.l))
         IN  [h |-> [n |-> whole + (rest \div LimbBase), d |-> 1],
              l |-> [n |-> rest % LimbBase, d |-> 1]]

-----------------------------------------------------------------------------
(* Constants of src/main.ts *)

REALM_PLATFORM_FEE_PER_MILLION == Rat(15, 2)

DAYS_PER_MONTH == 30

MAX_REALM_OPTIMIZATION == Rat(75, 100)

LEGACY_PIPELINE_OVERHEAD_PER_MILLION == 12

EVENTS_PER_MILLION == 1000000

combinationOverrides ==
    [key \in {"fortinet-fortigate::sumo-logic-siem"} |->
        [averageOptimization |-> Rat(2099, 10000),
         note |-> "Calibrated to Vensure case study (~$250K annual savings with Realm Focus)."]]

-----------------------------------------------------------------------------
(* Bounded inputs *)

MaxSources == 2

SourceIds == {"fortinet-fortigate", "okta"}

DestinationIds == {"sumo-logic-siem", "splunk-es"}

CostValues == {Num(18), Num(22)}

OptimizationValues == {Num(0), Rat(9, 10)}

TrafficValues == {Num(0), Num(1), Num(1000000), Num(2500000), Num(-1000000)}

Endpoint(ids) ==
    [id : ids, costPerMillionEvents : CostValues, realmOptimization : OptimizationValues]

SourceLists == UNION {[1..len -> Endpoint(SourceIds)] : len \in 0..MaxSources}

-----------------------------------------------------------------------------
(* Outcomes of a call *)

NoMetrics == [costPerMillionEvents |-> NaN, realmOptimization |-> NaN]

NoResult ==
    [monthlyEvents |-> NaN, standardCost |-> NaN, realmCost |-> NaN, savings |-> NaN,
     savingsPercentage |-> NaN, providerRatePerMillion |-> NaN,
     legacyRatePerMillion |-> NaN, optimizedRatePerMillion |-> NaN,
     averageOptimization |-> NaN, calibrationNote |-> ""]

NotCalled(none) == [status |-> "none", message |-> "", value |-> none]

Threw(message, none) == [status |-> "threw", message |-> message, value |-> none]

Returned(value) == [status |-> "returned", message |-> "", value |-> value]

-----------------------------------------------------------------------------
(* summarizeSources *)

\* selectedSources.reduce(..., { costPerMillionEvents: 0, realmOptimization: 0 })
RECURSIVE reduceSources(_, _)
reduceSources(accumulator, rest) ==
    IF rest = <<>>
    THEN accumulator
    ELSE reduceSources(
            [costPerMillionEvents |->
                RatAdd(accumulator.costPerMillionEvents, Head(rest).costPerMillionEvents),
             realmOptimization |->
                RatAdd(accumulator.realmOptimization, Head(rest).realmOptimization)],
            Tail(rest))

\* Variant: the single-source branch copies the cost into both fields
summarizeSources_copiedField(sources) ==
    IF Len(sources) = 0
    THEN Threw("At least one source must be provided for calculation.", NoMetrics)
    ELSE IF Len(sources) = 1
    THEN Returned([costPerMillionEvents |-> sources[1].costPerMillionEvents,
                   realmOptimization |-> sources[1].costPerMillionEvents])
    ELSE LET aggregates ==
                reduceSources([costPerMillionEvents |-> Num(0), realmOptimization |-> Num(0)],
                              sources)
         IN  Returned([costPerMillionEvents |->
                          RatDiv(aggregates.costPerMillionEvents, Num(Len(sources))),
                       realmOptimization |->
                          RatDiv(aggregates.realmOptimization, Num(Len(sources)))])

\* Variant: the aggregates are returned without dividing by the number of sources
summarizeSources_sum(sources) ==
    IF Len(sources) = 0
    THEN Threw("At least one source must be provided for calculation.", NoMetrics)
    ELSE IF Len(sources) = 1
    THEN Returned([costPerMillionEvents |-> sources[1].costPerMillionEvents,
                   realmOptimization |-> sources[1].realmOptimization])
    ELSE Returned(reduceSources([costPerMillionEvents |-> Num(0),
                                 realmOptimization |-> Num(0)], sources))

\* Variant: no length check, an empty selection yields the initial accumulator
summarizeSources_defaulted(sources) ==
    IF Len(sources) = 0
    THEN Returned([costPerMillionEvents |-> Num(0), realmOptimization |-> Num(0)])
    ELSE IF Len(sources) = 1
    THEN Returned([costPerMillionEvents |-> sources[1].costPerMillionEvents,
                   realmOptimization |-> sources[1].realmOptimization])
    ELSE LET aggregates ==
                reduceSources([costPerMillionEvents |-> Num(0), realmOptimization |-> Num(0)],
                              sources)
         IN  Returned([costPerMillionEvents |->
                          RatDiv(aggregates.costPerMillionEvents, Num(Len(sources))),
                       realmOptimization |->
                          RatDiv(aggregates.realmOptimization, Num(Len(sources)))])

summarizeSources(sources) ==
    IF Len(sources) = 0
    THEN Threw("At least one source must be provided for calculation.", NoMetrics)
    ELSE IF Len(sources) = 1
    THEN Returned([costPerMillionEvents |-> sources[1].costPerMillionEvents,
                   realmOptimization |-> sources[1].realmOptimization])
    ELSE LET aggregates ==
                reduceSources([costPerMillionEvents |-> Num(0), realmOptimization |-> Num(0)],
                              sources)
         IN  Returned([costPerMillionEvents |->
                          RatDiv(aggregates.costPerMillionEvents, Num(Len(sources))),
                       realmOptimization |->
                          RatDiv(aggregates.realmOptimization, Num(Len(sources)))])

-----------------------------------------------------------------------------
(* calculate: one operator per const of the function body *)

monthlyEvents(traffic) == RatMul(traffic, Num(DAYS_PER_MONTH))

millions(monthly) == RatDiv(monthly, Num(EVENTS_PER_MILLION))

providerRatePerMillion(combinedSource, dest) ==
    RatAdd(combinedSource.costPerMillionEvents, dest.costPerMillionEvents)

\* Variant: the platform fee is added to the baseline instead of the legacy overhead
legacyRatePerMillion_platformFee(providerRate) ==
    RatAdd(providerRate, REALM_PLATFORM_FEE_PER_MILLION)

legacyRatePerMillion(providerRate) ==
    RatAdd(providerRate, Num(LEGACY_PIPELINE_OVERHEAD_PER_MILLION))

standardCost(mill, legacyRate) == RatMul(mill, legacyRate)

\* null when the selection is not a single source
NullKey == [isNull |-> TRUE, key |-> ""]

\* Variant: the key is built from the first source whatever the selection size
overrideKey_firstSource(sources, dest) ==
    IF Len(sources) >= 1
    THEN [isNull |-> FALSE, key |-> sources[1].id \o "::" \o dest.id]
    ELSE NullKey

\* Variant: the destination is not part of the key
overrideKey_anyDestination(sources, dest) ==
    IF Len(sources) = 1
    THEN [isNull |-> FALSE, key |-> sources[1].id \o "::sumo-logic-siem"]
    ELSE NullKey

overrideKey(sources, dest) ==
    IF Len(sources) = 1
    THEN [isNull |-> FALSE, key |-> sources[1].id \o "::" \o dest.id]
    ELSE NullKey

\* overrideKey ? combinationOverrides[overrideKey] : undefined
UndefinedOverride ==
    [defined |-> FALSE, averageOptimization |-> NaN, note |-> ""]

\* Variant: the lookup never finds an entry
override_ignored(key) == UndefinedOverride

override(key) ==
    IF ~key.isNull /\ key.key # "" /\ key.key \in DOMAIN combinationOverrides
    THEN [defined |-> TRUE,
          averageOptimization |-> combinationOverrides[key.key].averageOptimization,
          note |-> combinationOverrides[key.key].note]
    ELSE UndefinedOverride

\* Variant: the blend is not capped
averageOptimization_uncapped(ov, combinedSource, dest) ==
    IF ov.defined
    THEN ov.averageOptimization
    ELSE RatDiv(RatAdd(combinedSource.realmOptimization, dest.realmOptimization), Num(2))

\* Variant: the two optimizations are added, not averaged
averageOptimization_added(ov, combinedSource, dest) ==
    IF ov.defined
    THEN ov.averageOptimization
    ELSE RatMin(MAX_REALM_OPTIMIZATION,
                RatAdd(combinedSource.realmOptimization, dest.realmOptimization))

\* override?.averageOptimization ?? Math.min(MAX_REALM_OPTIMIZATION, (...) / 2)
averageOptimization(ov, combinedSource, dest) ==
    IF ov.defined
    THEN ov.averageOptimization
    ELSE RatMin(MAX_REALM_OPTIMIZATION,
                RatDiv(RatAdd(combinedSource.realmOptimization, dest.realmOptimization),
                       Num(2)))

optimizedRatePerMillion(providerRate, avgOptimization) ==
    RatMul(providerRate, RatSub(Num(1), avgOptimization))

\* Variant: the legacy overhead is charged on the Realm side as well
realmCost_withOverhead(mill, optimizedRate) ==
    RatMul(mill, RatAdd(RatAdd(optimizedRate, REALM_PLATFORM_FEE_PER_MILLION),
                        Num(LEGACY_PIPELINE_OVERHEAD_PER_MILLION)))

realmCost(mill, optimizedRate) ==
    RatMul(mill, RatAdd(optimizedRate, REALM_PLATFORM_FEE_PER_MILLION))

\* Variant: the operands of the subtraction are exchanged
savings_reversed(standard, realm) == RatSub(realm, standard)

savings(standard, realm) == RatSub(standard, realm)

\* Variant: the division is not guarded
savingsPercentage_unguarded(saved, standard) ==
    RatMul(RatDiv(saved, standard), Num(100))

\* standardCost > 0 ? (savings / standardCost) * 100 : 0
savingsPercentage(saved, standard) ==
    IF RatGreater(standard, Num(0))
    THEN RatMul(RatDiv(saved, standard), Num(100))
    ELSE Num(0)

\* override?.note ?? ''
calibrationNote(ov) == IF ov.defined THEN ov.note ELSE ""

\* calculate from "const standardCost" on: the costs and the returned record
calculateCosts(monthly, mill, providerRate, legacyRate, ov, avgOptimization, optimizedRate) ==
    Returned(
        [monthlyEvents |-> monthly,
         standardCost |-> standardCost(mill, legacyRate),
         realmCost |-> realmCost(mill, optimizedRate),
         savings |-> savings(standardCost(mill, legacyRate),
                             realmCost(mill, optimizedRate)),
         savingsPercentage |->
            savingsPercentage(savings(standardCost(mill, legacyRate),
                                      realmCost(mill, optimizedRate)),
                              standardCost(mill, legacyRate)),
         providerRatePerMillion |-> providerRate,
         legacyRatePerMillion |-> legacyRate,
         optimizedRatePerMillion |-> optimizedRate,
         averageOptimization |-> avgOptimization,
         calibrationNote |-> calibrationNote(ov)])

\* calculate from "const averageOptimization" on
calculateOptimized(monthly, providerRate, ov, avgOptimization) ==
    calculateCosts(monthly, millions(monthly), providerRate,
                   legacyRatePerMillion(providerRate), ov, avgOptimization,
                   optimizedRatePerMillion(providerRate, avgOptimization))

\* calculate from "const providerRatePerMillion" on
calculateSummarized(sources, dest, monthly, combinedSource, ov) ==
    calculateOptimized(monthly, providerRatePerMillion(combinedSource, dest), ov,
                       averageOptimization(ov, combinedSource, dest))

calculate(sources, dest, traffic) ==
    IF Len(sources) = 0
    THEN Threw("At least one source must be selected.", NoResult)
    ELSE IF summarizeSources(sources).status = "threw"
    THEN Threw(summarizeSources(sources).message, NoResult)
    ELSE calculateSummarized(sources, dest, monthlyEvents(traffic),
                             summarizeSources(sources).value,
                             override(overrideKey(sources, dest)))

-----------------------------------------------------------------------------
(* Catalog lookup (src/main.ts) *)

NoEndpoint ==
    [id |-> "", costPerMillionEvents |-> NaN, realmOptimization |-> NaN,
     trafficCategory |-> [defined |-> FALSE, value |-> ""]]

\* list.find((item) => item.id === id): index of the first match, 0 when none
RECURSIVE findIndex(_, _, _)
findIndex(list, id, from) ==
    IF from > Len(list) THEN 0
    ELSE IF list[from].id = id THEN from
    ELSE findIndex(list, id, from + 1)

\* Variant: an unknown id yields a zero-cost placeholder instead of an error
getEndpoint_placeholder(list, id) ==
    LET index == findIndex(list, id, 1)
    IN  IF index = 0
        THEN Returned([id |-> id, costPerMillionEvents |-> Num(0),
                       realmOptimization |-> Num(0),
                       trafficCategory |-> [defined |-> FALSE, value |-> ""]])
        ELSE Returned(list[index])

getEndpoint(list, id) ==
    LET index == findIndex(list, id, 1)
    IN  IF index = 0
        THEN Threw("Unknown endpoint id: " \o id, NoEndpoint)
        ELSE Returned(list[index])

-----------------------------------------------------------------------------
(* src/data/traffic-profiles.ts *)

KB_PER_GIGABYTE == [h |-> [n |-> 1, d |-> 1], l |-> QZero]

ORGANIZATION_SIZE_METAS ==
    << [id |-> "under-1000-gb", shortLabel |-> "Less than 1,000 employees",
        defaultDailyGigabytes |-> Num(750)],
       [id |-> "1000-5000-gb", shortLabel |-> "1,000 - 5,000 employees",
        defaultDailyGigabytes |-> Num(3000)],
       [id |-> "over-5000-gb", shortLabel |-> "5,000+ employees",
        defaultDailyGigabytes |-> Num(6500)] >>

OrganizationSizeKeys == {ORGANIZATION_SIZE_METAS[i].id : i \in DOMAIN ORGANIZATION_SIZE_METAS}

\* new Map(ORGANIZATION_SIZE_METAS.map((meta) => [meta.id, meta]))
ORGANIZATION_SIZE_INDEX ==
    [key \in OrganizationSizeKeys |->
        CHOOSE m \in {ORGANIZATION_SIZE_METAS[i] : i \in DOMAIN ORGANIZATION_SIZE_METAS} :
            m.id = key]

fallbackCategory == "identity"

categoryLabels ==
    [category \in {"identity", "cloud-infrastructure", "network-security",
                   "endpoint-edr", "saas-business"} |->
        CASE category = "identity" -> "Identity and workforce access telemetry"
          [] category = "cloud-infrastructure" ->
                "Cloud platform control-plane and audit activity"
          [] category = "network-security" ->
                "Network flow, firewall, and secure service edge telemetry"
          [] category = "endpoint-edr" -> "Endpoint detection and response telemetry"
          [] category = "saas-business" -> "SaaS application and collaboration activity"]

Baseline(small, medium, large) ==
    [size \in OrganizationSizeKeys |->
        [averageEventSizeKb |->
            CASE size = "under-1000-gb" -> small
              [] size = "1000-5000-gb" -> medium
              [] size = "over-5000-gb" -> large]]

categoryBaselines ==
    [category \in DOMAIN categoryLabels |->
        CASE category = "identity" -> Baseline(Rat(12, 10), Rat(13, 10), Rat(13, 10))
          [] category = "cloud-infrastructure" ->
                Baseline(Rat(16, 10), Rat(17, 10), Rat(18, 10))
          [] category = "network-security" ->
                Baseline(Rat(12, 100), Rat(13, 100), Rat(14, 100))
          [] category = "endpoint-edr" -> Baseline(Rat(35, 10), Rat(38, 10), Num(4))
          [] category = "saas-business" ->
                Baseline(Rat(15, 10), Rat(16, 10), Rat(17, 10))]

NoMeta == [id |-> "", shortLabel |-> "", defaultDailyGigabytes |-> NaN]

NoBaseline == [averageEventSizeKb |-> NaN]

NoRecommendation ==
    [organizationSize |-> NoMeta, category |-> "", dailyEvents |-> NaN,
     dailyGigabytes |-> NaN, averageEventSizeKb |-> NaN]

\* Variant: an unknown key yields the first tier instead of an error
getOrganizationSizeMeta_firstTier(size) ==
    IF size \in DOMAIN ORGANIZATION_SIZE_INDEX
    THEN Returned(ORGANIZATION_SIZE_INDEX[size])
    ELSE Returned(ORGANIZATION_SIZE_METAS[1])

getOrganizationSizeMeta(size) ==
    IF size \in DOMAIN ORGANIZATION_SIZE_INDEX
    THEN Returned(ORGANIZATION_SIZE_INDEX[size])
    ELSE Threw("Unknown organization size key: " \o size, NoMeta)

getBaseline(category, size) ==
    LET categorySet ==
            IF category \in DOMAIN categoryBaselines
            THEN categoryBaselines[category]
            ELSE categoryBaselines[fallbackCategory]
    IN  IF size \in DOMAIN categorySet
        THEN Returned(categorySet[size])
        ELSE Threw("Missing baseline for category " \o category \o " and size " \o size,
                   NoBaseline)

\* Variant: the volume in KB is not divided by the event size
getTrafficRecommendation_undivided(endpoint, size) ==
    LET metaCall == getOrganizationSizeMeta(size)
        category ==
            IF endpoint.trafficCategory.defined
            THEN endpoint.trafficCategory.value
            ELSE fallbackCategory
    IN  IF metaCall.status = "threw"
        THEN Threw(metaCall.message, NoRecommendation)
        ELSE
        LET baselineCall == getBaseline(category, size)
        IN  IF baselineCall.status = "threw"
            THEN Threw(baselineCall.message, NoRecommendation)
            ELSE
            LET dailyGigabytes == metaCall.value.defaultDailyGigabytes
                averageEventSizeKb == baselineCall.value.averageEventSizeKb
            IN  Returned(
                    [organizationSize |-> metaCall.value,
                     category |-> category,
                     dailyEvents |-> RatRound(RatMul(dailyGigabytes, KB_PER_GIGABYTE)),
                     dailyGigabytes |-> dailyGigabytes,
                     averageEventSizeKb |-> averageEventSizeKb])

getTrafficRecommendation(endpoint, size) ==
    LET metaCall == getOrganizationSizeMeta(size)
        category ==
            IF endpoint.trafficCategory.defined
            THEN endpoint.trafficCategory.value
            ELSE fallbackCategory
    IN  IF metaCall.status = "threw"
        THEN Threw(metaCall.message, NoRecommendation)
        ELSE
        LET baselineCall == getBaseline(category, size)
        IN  IF baselineCall.status = "threw"
            THEN Threw(baselineCall.message, NoRecommendation)
            ELSE
            LET dailyGigabytes == metaCall.value.defaultDailyGigabytes
                averageEventSizeKb == baselineCall.value.averageEventSizeKb
            IN  Returned(
                    [organizationSize |-> metaCall.value,
                     category |-> category,
                     dailyEvents |->
                        RatRound(RatDiv(RatMul(dailyGigabytes, KB_PER_GIGABYTE),
                                        RatMax(averageEventSizeKb, Rat(1, 10000)))),
                     dailyGigabytes |-> dailyGigabytes,
                     averageEventSizeKb |-> averageEventSizeKb])

\* value.toLocaleString(undefined, { maximumFractionDigits: digits }) and
\* value.toFixed(digits), for a finite value >= 0: the number that is printed
RoundToDigits(value, digits) ==
    LET scale == IF digits = 0 THEN 1 ELSE IF digits = 1 THEN 10 ELSE 100
    IN  Small(Norm(QRound(QMul(value.l, [n |-> scale, d |-> 1])), scale))

\* The parts of the sentence that describeTrafficRecommendation builds
describeTrafficRecommendation(rec) ==
    LET categoryLabel ==
            IF rec.category \in DOMAIN categoryLabels
            THEN categoryLabels[rec.category]
            ELSE categoryLabels[fallbackCategory]
        dailyTb == RatDiv(rec.dailyGigabytes, Num(1024))
    IN  Returned(
            [categoryLabel |-> categoryLabel,
             volumeUnit |-> IF ~RatLess(rec.dailyGigabytes, Num(1024)) THEN "TB" ELSE "GB",
             volumeValue |->
                IF ~RatLess(rec.dailyGigabytes, Num(1024))
                THEN RoundToDigits(dailyTb, 2)
                ELSE RoundToDigits(rec.dailyGigabytes,
                                   IF ~RatLess(rec.dailyGigabytes, Num(100)) THEN 0 ELSE 1),
             dailyEvents |-> rec.dailyEvents,
             averageEventSizeKb |-> RoundToDigits(rec.averageEventSizeKb, 1)])

-----------------------------------------------------------------------------
(* The page of src/main.ts.  ui is a record of the form controls and of the *)
(* module variables that the handlers read and write.  Text that is only    *)
(* rendered (summaries, tooltips, the recommendation sentence) and the      *)
(* Cribl estimate are left out.                                             *)

KB_PER_TERABYTE == [h |-> [n |-> 1024, d |-> 1], l |-> QZero]

DEFAULT_EVENT_SIZE_KB == 1

\* An optional value: null / undefined, or a value
None(none) == [defined |-> FALSE, value |-> none]

Some(value) == [defined |-> TRUE, value |-> value]

\* x ?? y
Coalesce(x, y) == IF x.defined THEN x.value ELSE y

\* The text of an input field: empty (or blank), the decimal text of a
\* number, or text that is not a number
EmptyText == [kind |-> "empty", value |-> NaN]

GarbageText == [kind |-> "text", value |-> NaN]

NumberText(x) == [kind |-> "number", value |-> x]

\* Number.parseFloat(text)
parseFloat(text) == IF text.kind = "number" THEN text.value ELSE NaN

\* The catalog (sources, destinations) in the order of the select options
sourceCatalog ==
    << [id |-> "fortinet-fortigate", costPerMillionEvents |-> Num(18),
        realmOptimization |-> Rat(4, 5),
        trafficCategory |-> [defined |-> TRUE, value |-> "network-security"]],
       [id |-> "okta", costPerMillionEvents |-> Num(22),
        realmOptimization |-> Rat(2, 5),
        trafficCategory |-> [defined |-> TRUE, value |-> "identity"]] >>

destinationCatalog ==
    << [id |-> "sumo-logic-siem", costPerMillionEvents |-> Num(22),
        realmOptimization |-> Rat(9, 10),
        trafficCategory |-> [defined |-> FALSE, value |-> ""]],
       [id |-> "splunk-es", costPerMillionEvents |-> Num(18),
        realmOptimization |-> Rat(3, 5),
        trafficCategory |-> [defined |-> FALSE, value |-> ""]] >>

CatalogIds(catalog) == {catalog[i].id : i \in DOMAIN catalog}

TrafficUnits == {"events", "gigabytes", "terabytes"}

NoSnapshot ==
    [sources |-> <<>>, destination |-> NoEndpoint, trafficUnit |-> "",
     organizationSize |-> "", recommendation |-> NoRecommendation,
     dailyInput |-> NaN, dailyEvents |-> NaN, averageEventSizeKb |-> NaN,
     result |-> NoResult]

\* The arguments of the call of calculate that the last run of update made,
\* if it made one
NoCall == [sources |-> <<>>, destination |-> NoEndpoint, dailyTraffic |-> NaN]

\* requiredMonthlyEvents, requiredStandardCost, requiredRealmCost and
\* requiredSavings showing '--'
NoOutputs ==
    [shown |-> FALSE, monthlyEvents |-> NaN, standardCost |-> NaN,
     realmCost |-> NaN, savings |-> NaN]

\* Array.from(select.selectedOptions): the selected ids in option order
RECURSIVE selectedFrom(_, _, _)
selectedFrom(catalog, selectedIds, from) ==
    IF from > Len(catalog) THEN <<>>
    ELSE IF catalog[from].id \in selectedIds
    THEN <<catalog[from].id>> \o selectedFrom(catalog, selectedIds, from + 1)
    ELSE selectedFrom(catalog, selectedIds, from + 1)

getSelectedSourceIds(u) == selectedFrom(sourceCatalog, u.selectedIds, 1)

getSelectedSources(u) ==
    LET selectedIds == getSelectedSourceIds(u)
    IN  [i \in DOMAIN selectedIds |-> getEndpoint(sourceCatalog, selectedIds[i]).value]

\* Both branches end in resetExportButtonMessage, which removes the error
\* class from the button
setExportButtonState(u, enabled) ==
    [u EXCEPT !.exportDisabled = ~enabled, !.exportError = FALSE]

\* Variant: the export button is left as it is
resetOutputs_buttonKept(u) ==
    [u EXCEPT !.lastSnapshot = None(NoSnapshot), !.outputs = NoOutputs]

resetOutputs(u) ==
    setExportButtonState([u EXCEPT !.lastSnapshot = None(NoSnapshot),
                                   !.outputs = NoOutputs],
                         FALSE)

\* volumeInUnits >= 100 ? 0 : volumeInUnits >= 10 ? 1 : 2
decimals(volumeInUnits) ==
    IF ~RatLess(volumeInUnits, Num(100)) THEN 0
    ELSE IF ~RatLess(volumeInUnits, Num(10)) THEN 1 ELSE 2

\* The text that applyRecommendation writes into requiredTrafficInput
recommendedTrafficText(recommendation, unitValue) ==
    IF unitValue = "events"
    THEN NumberText(RatRound(recommendation.dailyEvents))
    ELSE LET volumeInUnits ==
                 IF unitValue = "gigabytes"
                 THEN recommendation.dailyGigabytes
                 ELSE RatDiv(recommendation.dailyGigabytes, Num(1024))
         IN  NumberText(RoundToDigits(volumeInUnits, decimals(volumeInUnits)))

\* Variant: the field is only filled when the caller asks for it
shouldOverrideTraffic_onlyWhenAsked(u, overrideTraffic) == Coalesce(overrideTraffic, FALSE)

\* Variant: the caller's request is ignored, the user's edit always protects
shouldOverrideTraffic_unlessEdited(u, overrideTraffic) ==
    ~u.userTrafficEdited \/ u.trafficInput.kind = "empty"

\* Variant: the user's edit does not protect the field
shouldOverrideTraffic_always(u, overrideTraffic) == TRUE

shouldOverrideTraffic(u, overrideTraffic) ==
    Coalesce(overrideTraffic, ~u.userTrafficEdited \/ u.trafficInput.kind = "empty")

shouldOverrideEventSize(u, overrideEventSize) ==
    IF u.hasEventSizeInput /\ u.trafficUnit # "events"
    THEN Coalesce(overrideEventSize,
                  ~u.userEventSizeEdited \/ u.eventSizeInput.kind = "empty")
    ELSE FALSE

\* Variant: a recommendation that is already cached is kept
storeRecommendation_kept(u, recommendation) ==
    IF u.currentRecommendation.defined
    THEN u
    ELSE [u EXCEPT !.currentRecommendation = Some(recommendation)]

\* currentRecommendation = recommendation
storeRecommendation(u, recommendation) ==
    [u EXCEPT !.currentRecommendation = Some(recommendation)]

\* applyRecommendation from "currentRecommendation = recommendation" on
applyRecommended(u, recommendation, overrideTraffic, overrideEventSize) ==
    [storeRecommendation(u, recommendation) EXCEPT
        !.trafficInput =
            IF shouldOverrideTraffic(u, overrideTraffic)
            THEN recommendedTrafficText(recommendation, u.trafficUnit)
            ELSE @,
        !.userTrafficEdited =
            IF shouldOverrideTraffic(u, overrideTraffic) THEN FALSE ELSE @,
        !.eventSizeInput =
            IF shouldOverrideEventSize(u, overrideEventSize)
            THEN NumberText(RoundToDigits(recommendation.averageEventSizeKb, 1))
            ELSE @,
        !.userEventSizeEdited =
            IF shouldOverrideEventSize(u, overrideEventSize) THEN FALSE ELSE @]

applyRecommendation(u, overrideTraffic, overrideEventSize) ==
    IF getSelectedSourceIds(u) = <<>>
    THEN [u EXCEPT !.currentRecommendation = None(NoRecommendation)]
    ELSE applyRecommended(
            u,
            getTrafficRecommendation(getSelectedSources(u)[1], u.organizationSize).value,
            overrideTraffic,
            overrideEventSize)

\* Variant: a terabyte is converted like a gigabyte
kbPerUnit_gigabytes(unit) == KB_PER_GIGABYTE

kbPerUnit(unit) == IF unit = "gigabytes" THEN KB_PER_GIGABYTE ELSE KB_PER_TERABYTE

\* update: dailyEvents
dailyEventsOf(parsedTraffic, unit, averageEventSizeUsed) ==
    IF unit = "events"
    THEN parsedTraffic
    ELSE IF RatGreater(averageEventSizeUsed, Num(0))
    THEN RatDiv(RatMul(parsedTraffic, kbPerUnit(unit)), averageEventSizeUsed)
    ELSE Num(0)

\* update from the successful calculate on
updateCalculated(u, selection, destinationEndpoint, recommendation, parsedTraffic, averageEventSizeUsed, dailyEvents, computed) ==
    setExportButtonState(
        [u EXCEPT
            !.currentRecommendation = Some(recommendation),
            !.trafficError = "",
            !.calculateCall =
                Some([sources |-> selection,
                      destination |-> destinationEndpoint,
                      dailyTraffic |-> dailyEvents]),
            !.outputs =
                [shown |-> TRUE,
                 monthlyEvents |-> computed.monthlyEvents,
                 standardCost |-> RatMax(Num(0), computed.standardCost),
                 realmCost |-> RatMax(Num(0), computed.realmCost),
                 savings |-> computed.savings],
            !.lastSnapshot =
                Some([sources |-> selection,
                      destination |-> destinationEndpoint,
                      trafficUnit |-> u.trafficUnit,
                      organizationSize |-> u.organizationSize,
                      recommendation |-> recommendation,
                      dailyInput |-> parsedTraffic,
                      dailyEvents |-> dailyEvents,
                      averageEventSizeKb |-> averageEventSizeUsed,
                      result |-> computed])],
        TRUE)

\* update from "currentRecommendation = recommendation" to the call of
\* calculate
updateRecommended(u, selection, destinationEndpoint, recommendation) ==
    LET isEventsUnit == u.trafficUnit = "events"
        parsedTraffic ==
            IF u.trafficInput.kind = "empty" THEN Num(0) ELSE parseFloat(u.trafficInput)
        recommendedSize ==
            IF RatGreater(recommendation.averageEventSizeKb, Num(0))
            THEN recommendation.averageEventSizeKb
            ELSE Num(DEFAULT_EVENT_SIZE_KB)
        parsedEventSize ==
            IF u.eventSizeInput.kind = "empty"
            THEN recommendedSize
            ELSE parseFloat(u.eventSizeInput)
        averageEventSizeUsed ==
            IF ~isEventsUnit /\ u.hasEventSizeInput
            THEN parsedEventSize
            ELSE recommendedSize
        dailyEvents == dailyEventsOf(parsedTraffic, u.trafficUnit, averageEventSizeUsed)
    IN  IF ~IsFinite(parsedTraffic) \/ RatLess(parsedTraffic, Num(0))
        THEN resetOutputs(
                [u EXCEPT
                    !.currentRecommendation = Some(recommendation),
                    !.calculateCall = None(NoCall),
                    !.trafficError = "Enter a positive number for daily volume."])
        ELSE IF /\ ~isEventsUnit
                /\ u.hasEventSizeInput
                /\ (~IsFinite(parsedEventSize) \/ ~RatGreater(parsedEventSize, Num(0)))
        THEN resetOutputs(
                [u EXCEPT
                    !.currentRecommendation = Some(recommendation),
                    !.calculateCall = None(NoCall),
                    !.trafficError = "Enter a positive average event size in KB."])
        ELSE updateCalculated(
                u, selection, destinationEndpoint, recommendation, parsedTraffic,
                averageEventSizeUsed, dailyEvents,
                calculate(selection, destinationEndpoint, dailyEvents).value)

update(u) ==
    LET selection == getSelectedSources(u)
    IN  IF Len(selection) = 0 \/ u.destinationId = ""
        THEN resetOutputs(
                [u EXCEPT !.currentRecommendation =
                              IF Len(selection) > 0 THEN @ ELSE None(NoRecommendation),
                          !.calculateCall = None(NoCall),
                          !.trafficError = ""])
        ELSE updateRecommended(
                u,
                selection,
                getEndpoint(destinationCatalog, u.destinationId).value,
                IF u.currentRecommendation.defined
                THEN u.currentRecommendation.value
                ELSE getTrafficRecommendation(selection[1], u.organizationSize).value)

\* What becomes of the export that is waiting in createExecutiveSummaryPdf:
\* the PDF is saved, the jsPDF library cannot be loaded, or building the
\* document throws
ExportOutcomes == {"saved", "unavailable", "threw"}

\* loadJsPdf: a library that is on the page stays there, and a loader that
\* resolved to null is kept in jsPdfLoader and resolves to null again
loadJsPdf(u, outcome) ==
    [u EXCEPT !.jsPdf = IF outcome = "unavailable" THEN "unavailable" ELSE "loaded"]

\* Variant: a click during an export is not turned away
handleExportPdf_reentrant(u) ==
    IF ~u.lastSnapshot.defined
    THEN u
    ELSE [u EXCEPT !.exportLoading = TRUE,
                   !.exportDisabled = TRUE,
                   !.exportsInFlight = @ + 1]

\* handleExportPdf as far as "await createExecutiveSummaryPdf(lastSnapshot)"
handleExportPdf(u) ==
    IF ~u.lastSnapshot.defined \/ u.exportLoading
    THEN u
    ELSE [u EXCEPT !.exportLoading = TRUE,
                   !.exportDisabled = TRUE,
                   !.exportsInFlight = @ + 1]

\* handleExportPdf from the settled await on: catch (showExportError) and
\* finally
handleExportPdfSettled(u, outcome) ==
    [loadJsPdf(u, outcome) EXCEPT
        !.exportError = IF outcome = "saved" THEN @ ELSE TRUE,
        !.exportDisabled = FALSE,
        !.exportLoading = FALSE,
        !.exportsInFlight = @ - 1]

\* The timer of showExportError: resetExportButtonMessage
resetExportButtonMessage(u) == [u EXCEPT !.exportError = FALSE]

\* The page as index.html and the module's top level leave it, before
\* initialize runs
Page(hasEventSizeInput) ==
    [selectedIds |-> {},
     destinationId |-> "",
     organizationSize |-> "",
     trafficUnit |-> "",
     trafficInput |-> EmptyText,
     hasEventSizeInput |-> hasEventSizeInput,
     eventSizeInput |-> EmptyText,
     userTrafficEdited |-> FALSE,
     userEventSizeEdited |-> FALSE,
     currentRecommendation |-> None(NoRecommendation),
     lastSnapshot |-> None(NoSnapshot),
     exportDisabled |-> TRUE,
     exportLoading |-> FALSE,
     exportError |-> FALSE,
     exportsInFlight |-> 0,
     jsPdf |-> "none",
     trafficError |-> "",
     outputs |-> NoOutputs,
     calculateCall |-> None(NoCall)]

\* applyRecommendation({ overrideTraffic: true, overrideEventSize: true }); update()
initialize(u) ==
    CHOOSE done \in
        {update(applied) :
            applied \in {applyRecommendation(
                            [u EXCEPT !.selectedIds = {},
                                      !.destinationId = "",
                                      !.trafficUnit = "gigabytes",
                                      !.organizationSize = ORGANIZATION_SIZE_METAS[1].id],
                            Some(TRUE), Some(TRUE))}} : TRUE

\* The page is not part of this run
UiIdle == ui = Page(FALSE)

-----------------------------------------------------------------------------
(* The engine as a state machine: the inputs are drawn in Init and each    *)
(* action is one call of an exported function on them.                     *)

NoRequest ==
    [op |-> "", list |-> <<>>, id |-> "", endpoint |-> NoEndpoint, size |-> "",
     recommendation |-> NoRecommendation]

\* No catalog or traffic-profile call is part of this run
ProfilesIdle ==
    /\ request = NoRequest
    /\ response = NotCalled(NoEndpoint)

Init ==
    /\ selectedSources \in SourceLists
    /\ destination \in Endpoint(DestinationIds)
    /\ dailyTraffic \in TrafficValues
    /\ summary = NotCalled(NoMetrics)
    /\ result = NotCalled(NoResult)
    /\ ProfilesIdle
    /\ UiIdle

CallSummarizeSources ==
    /\ summary.status = "none"
    /\ summary' = summarizeSources(selectedSources)
    /\ UNCHANGED <<selectedSources, destination, dailyTraffic, result, profileVars, ui>>

CallCalculate ==
    /\ result.status = "none"
    /\ result' = calculate(selectedSources, destination, dailyTraffic)
    /\ UNCHANGED <<selectedSources, destination, dailyTraffic, summary, profileVars, ui>>

Next ==
    \/ CallSummarizeSources
    \/ CallCalculate

Spec == Init /\ [][Next]_vars

-----------------------------------------------------------------------------
(* The engine called with one source and with ids that contain the parts    *)
(* of the registered override key and its separator.                        *)

KeyIds ==
    {"fortinet-fortigate", "sumo-logic-siem", "fortinet-fortigate::sumo-logic-siem",
     "fortinet-fortigate::sumo-logic", "-siem", "siem", "", "::", "::sumo-logic-siem",
     "fortinet-fortigate::", "fortinet-fortigate:", ":sumo-logic-siem"}

InitKeys ==
    /\ selectedSources \in
          {<<[id |-> id, costPerMillionEvents |-> Num(18), realmOptimization |-> Rat(9, 10)]>> :
              id \in KeyIds}
    /\ destination \in
          {[id |-> id, costPerMillionEvents |-> Num(18), realmOptimization |-> Rat(9, 10)] :
              id \in KeyIds}
    /\ dailyTraffic = Num(1000000)
    /\ summary = NotCalled(NoMetrics)
    /\ result = NotCalled(NoResult)
    /\ ProfilesIdle
    /\ UiIdle

SpecKeys == InitKeys /\ [][Next]_vars

-----------------------------------------------------------------------------
(* The catalog and traffic-profile functions as a state machine: one call   *)
(* with its arguments is drawn in Init and the matching action makes it.    *)

MaxListLen == 2

\* The categories of traffic-profiles.ts, and one that has no baseline row
TrafficCategories == DOMAIN categoryBaselines \cup {"database"}

CategoryOptions ==
    {[defined |-> FALSE, value |-> ""]} \cup
    {[defined |-> TRUE, value |-> category] : category \in TrafficCategories}

\* The tiers of traffic-profiles.ts, and a key that is none of them
SizeKeys == OrganizationSizeKeys \cup {"hundreds"}

CatalogEntries ==
    {[id |-> "fortinet-fortigate", costPerMillionEvents |-> Num(18),
      realmOptimization |-> Rat(3, 5),
      trafficCategory |-> [defined |-> TRUE, value |-> "network-security"]],
     [id |-> "okta", costPerMillionEvents |-> Num(22),
      realmOptimization |-> Num(0),
      trafficCategory |-> [defined |-> TRUE, value |-> "identity"]],
     [id |-> "okta", costPerMillionEvents |-> Num(18),
      realmOptimization |-> Rat(9, 10),
      trafficCategory |-> [defined |-> FALSE, value |-> ""]]}

EndpointLists == UNION {[1..len -> CatalogEntries] : len \in 0..MaxListLen}

LookupIds == {"fortinet-fortigate", "okta", "unknown-endpoint"}

EndpointOfCategory(category) ==
    [id |-> "okta", costPerMillionEvents |-> Num(18), realmOptimization |-> Num(0),
     trafficCategory |-> category]

\* Recommendations handed to describeTrafficRecommendation: those that
\* getTrafficRecommendation returns, and the same with other daily volumes
DescribedGigabytes == {Rat(1, 2), Num(1), Num(99), Num(1023), Num(1024)}

ReturnedRecommendations ==
    {getTrafficRecommendation(EndpointOfCategory(category), size).value :
        category \in CategoryOptions, size \in OrganizationSizeKeys}

DescribedRecommendations ==
    ReturnedRecommendations \cup
    {[getTrafficRecommendation(EndpointOfCategory([defined |-> FALSE, value |-> ""]),
                               "under-1000-gb").value
        EXCEPT !.dailyGigabytes = gigabytes] : gigabytes \in DescribedGigabytes}

Requests ==
    {[NoRequest EXCEPT !.op = "getEndpoint", !.list = list, !.id = id] :
        list \in EndpointLists, id \in LookupIds}
    \cup {[NoRequest EXCEPT !.op = "getOrganizationSizeMeta", !.size = size] :
            size \in SizeKeys}
    \cup {[NoRequest EXCEPT !.op = "getTrafficRecommendation",
                            !.endpoint = EndpointOfCategory(category), !.size = size] :
            category \in CategoryOptions, size \in SizeKeys}
    \cup {[NoRequest EXCEPT !.op = "describeTrafficRecommendation",
                            !.recommendation = rec] :
            rec \in DescribedRecommendations}

\* The estimation engine is not part of this run
EngineIdle ==
    /\ selectedSources = <<>>
    /\ destination = [id |-> "splunk-es", costPerMillionEvents |-> Num(18),
                      realmOptimization |-> Num(0)]
    /\ dailyTraffic = Num(0)
    /\ summary = NotCalled(NoMetrics)
    /\ result = NotCalled(NoResult)

InitProfiles ==
    /\ request \in Requests
    /\ response = NotCalled(NoEndpoint)
    /\ EngineIdle
    /\ UiIdle

CallGetEndpoint ==
    /\ request.op = "getEndpoint"
    /\ response.status = "none"
    /\ response' = getEndpoint(request.list, request.id)
    /\ UNCHANGED <<request, engineVars, ui>>

CallGetOrganizationSizeMeta ==
    /\ request.op = "getOrganizationSizeMeta"
    /\ response.status = "none"
    /\ response' = getOrganizationSizeMeta(request.size)
    /\ UNCHANGED <<request, engineVars, ui>>

CallGetTrafficRecommendation ==
    /\ request.op = "getTrafficRecommendation"
    /\ response.status = "none"
    /\ response' = getTrafficRecommendation(request.endpoint, request.size)
    /\ UNCHANGED <<request, engineVars, ui>>

CallDescribeTrafficRecommendation ==
    /\ request.op = "describeTrafficRecommendation"
    /\ response.status = "none"
    /\ response' = describeTrafficRecommendation(request.recommendation)
    /\ UNCHANGED <<request, engineVars, ui>>

NextProfiles ==
    \/ CallGetEndpoint
    \/ CallGetOrganizationSizeMeta
    \/ CallGetTrafficRecommendation
    \/ CallDescribeTrafficRecommendation

SpecProfiles == InitProfiles /\ [][NextProfiles]_vars

-----------------------------------------------------------------------------
(* The page as a state machine: Init is the page after initialize, and each *)
(* action is one event listener, run to its end.                            *)

\* What the user types into the daily volume field and the event size field
TypedTraffic ==
    {EmptyText, GarbageText, NumberText(Num(10)), NumberText(Num(-10)), NumberText(Huge)}

TypedEventSize == {EmptyText, GarbageText, NumberText(Num(2)), NumberText(Num(0))}

InitUi ==
    /\ ui \in {initialize(Page(hasEventSizeInput)) : hasEventSizeInput \in BOOLEAN}
    /\ EngineIdle
    /\ ProfilesIdle

\* requiredSourceSelect 'change': one option is toggled
SourceSelectChange(id) ==
    LET toggled ==
            [ui EXCEPT !.selectedIds = IF id \in @ THEN @ \ {id} ELSE @ \cup {id}]
    IN  /\ \E applied \in {applyRecommendation(toggled, None(FALSE),
                                                 Some(~toggled.userEventSizeEdited))} :
                ui' = update(applied)
        /\ UNCHANGED <<engineVars, profileVars>>

\* requiredDestinationSelect 'change'
DestinationSelectChange(id) ==
    /\ id # ui.destinationId
    /\ \E changed \in {[ui EXCEPT !.destinationId = id]} : ui' = update(changed)
    /\ UNCHANGED <<engineVars, profileVars>>

\* requiredOrganizationSizeSelect 'change'
OrganizationSizeSelectChange(size) ==
    /\ size # ui.organizationSize
    /\ \E applied \in {applyRecommendation([ui EXCEPT !.organizationSize = size],
                                             Some(TRUE), Some(TRUE))} :
            ui' = update(applied)
    /\ UNCHANGED <<engineVars, profileVars>>

\* requiredTrafficInput 'input'
TrafficInputInput(text) ==
    /\ text # ui.trafficInput
    /\ \E edited \in {[ui EXCEPT !.trafficInput = text, !.userTrafficEdited = TRUE]} :
            ui' = update(edited)
    /\ UNCHANGED <<engineVars, profileVars>>

\* requiredTrafficUnit 'change'
TrafficUnitChange(unit) ==
    LET changed == [ui EXCEPT !.trafficUnit = unit]
    IN  /\ unit # ui.trafficUnit
        /\ \E applied \in {applyRecommendation(changed,
                                                 Some(~changed.userTrafficEdited),
                                                 Some(~changed.userEventSizeEdited))} :
                ui' = update(applied)
        /\ UNCHANGED <<engineVars, profileVars>>

\* optionalEventSizeInput 'input', when the page has that field
EventSizeInputInput(text) ==
    /\ ui.hasEventSizeInput
    /\ text # ui.eventSizeInput
    /\ \E edited \in {[ui EXCEPT !.eventSizeInput = text, !.userEventSizeEdited = TRUE]} :
            ui' = update(edited)
    /\ UNCHANGED <<engineVars, profileVars>>

NextUi ==
    \/ \E id \in CatalogIds(sourceCatalog) : SourceSelectChange(id)
    \/ \E id \in CatalogIds(destinationCatalog) : DestinationSelectChange(id)
    \/ \E size \in OrganizationSizeKeys : OrganizationSizeSelectChange(size)
    \/ \E text \in TypedTraffic : TrafficInputInput(text)
    \/ \E unit \in TrafficUnits : TrafficUnitChange(unit)
    \/ \E text \in TypedEventSize : EventSizeInputInput(text)

SpecUi == InitUi /\ [][NextUi]_vars

-----------------------------------------------------------------------------
(* The page with the PDF export: the listeners of the form controls on a    *)
(* smaller set of inputs, the click on the export button, the export that   *)
(* settles later, and the timer that takes the error label away.            *)

MaxExports == 2

ExportSourceIds == {"fortinet-fortigate"}

ExportDestinationIds == {"splunk-es"}

ExportTypedTraffic == {NumberText(Num(10)), NumberText(Num(-10))}

ExportTrafficUnits == {"gigabytes", "terabytes"}

ExportSizeKeys == {ORGANIZATION_SIZE_METAS[1].id, ORGANIZATION_SIZE_METAS[2].id}

ExportTypedEventSize == {NumberText(Num(2))}

\* requiredExportPdfButton 'click'
ExportClick ==
    /\ ui.exportsInFlight < MaxExports
    /\ ui' = handleExportPdf(ui)
    /\ UNCHANGED <<engineVars, profileVars>>

\* The promise of createExecutiveSummaryPdf settles and handleExportPdf
\* runs to its end
ExportSettled(outcome) ==
    /\ ui.exportsInFlight > 0
    /\ outcome = "saved" => ui.jsPdf # "unavailable"
    /\ outcome = "threw" => ui.jsPdf # "unavailable"
    /\ outcome = "unavailable" => ui.jsPdf # "loaded"
    /\ ui' = handleExportPdfSettled(ui, outcome)
    /\ UNCHANGED <<engineVars, profileVars>>

\* window.setTimeout(() => resetExportButtonMessage(), 4000)
ExportErrorTimeout ==
    /\ ui.exportError
    /\ ui' = resetExportButtonMessage(ui)
    /\ UNCHANGED <<engineVars, profileVars>>

NextExport ==
    \/ \E id \in ExportSourceIds : SourceSelectChange(id)
    \/ \E id \in ExportDestinationIds : DestinationSelectChange(id)
    \/ \E size \in ExportSizeKeys : OrganizationSizeSelectChange(size)
    \/ \E text \in ExportTypedTraffic : TrafficInputInput(text)
    \/ \E unit \in ExportTrafficUnits : TrafficUnitChange(unit)
    \/ \E text \in ExportTypedEventSize : EventSizeInputInput(text)
    \/ ExportClick
    \/ \E outcome \in ExportOutcomes : ExportSettled(outcome)
    \/ ExportErrorTimeout

SpecExport == InitUi /\ [][NextExport]_vars

-----------------------------------------------------------------------------
(* Properties *)

RECURSIVE SumCost(_)
SumCost(list) ==
    IF list = <<>> THEN Num(0)
    ELSE RatAdd(list[1].costPerMillionEvents, SumCost(Tail(list)))

RECURSIVE SumOptimization(_)
SumOptimization(list) ==
    IF list = <<>> THEN Num(0)
    ELSE RatAdd(list[1].realmOptimization, SumOptimization(Tail(list)))

MeanCost(list) == RatDiv(SumCost(list), Num(Len(list)))

MeanOptimization(list) == RatDiv(SumOptimization(list), Num(Len(list)))

RatLessEq(a, b) == RatLess(a, b) \/ (a = b /\ a # NaN)

\* The (source id, destination id) pairs with a registered combination override
RegisteredPairs == {<<"fortinet-fortigate", "sumo-logic-siem">>}

OverrideApplies ==
    /\ Len(selectedSources) = 1
    /\ <<selectedSources[1].id, destination.id>> \in RegisteredPairs

\* C1: for a single selected source, summarizeSources returns exactly that
\* source's costPerMillionEvents and realmOptimization.
C1_SingleSourceIdentity ==
    (Len(selectedSources) = 1 /\ summary.status # "none") =>
        /\ summary.status = "returned"
        /\ summary.value.costPerMillionEvents = selectedSources[1].costPerMillionEvents
        /\ summary.value.realmOptimization = selectedSources[1].realmOptimization

C1_Witness ==
    /\ Len(selectedSources) = 1
    /\ summary.status = "returned"
    /\ selectedSources[1].costPerMillionEvents # selectedSources[1].realmOptimization

\* C2: for N > 1 selected sources, summarizeSources returns the arithmetic
\* mean (the sum divided by N, not the sum) of the costs and, separately, of
\* the optimizations; costs 18 and 22 give 20.
C2_MultiSourceMean ==
    (Len(selectedSources) > 1 /\ summary.status # "none") =>
        /\ summary.status = "returned"
        /\ RatMul(summary.value.costPerMillionEvents, Num(Len(selectedSources)))
              = SumCost(selectedSources)
        /\ RatMul(summary.value.realmOptimization, Num(Len(selectedSources)))
              = SumOptimization(selectedSources)
        /\ (/\ Len(selectedSources) = 2
            /\ selectedSources[1].costPerMillionEvents = Num(18)
            /\ selectedSources[2].costPerMillionEvents = Num(22))
              => summary.value.costPerMillionEvents = Num(20)

C2_Witness ==
    /\ Len(selectedSources) = 2
    /\ selectedSources[1].costPerMillionEvents = Num(18)
    /\ selectedSources[2].costPerMillionEvents = Num(22)
    /\ selectedSources[1].realmOptimization # selectedSources[2].realmOptimization
    /\ summary.status = "returned"
    /\ summary.value.costPerMillionEvents = Num(20)

\* C3: with zero selected sources, summarizeSources and calculate both raise,
\* for any destination and traffic; neither returns a result.
C3_EmptySelectionRaises ==
    Len(selectedSources) = 0 =>
        /\ summary.status \in {"none", "threw"}
        /\ result.status \in {"none", "threw"}

C3_Witness ==
    /\ Len(selectedSources) = 0
    /\ summary.status = "threw"
    /\ result.status = "threw"

\* C4: with exactly one source and an override registered for its id and the
\* destination id, calculate reports the override's averageOptimization
\* verbatim (0.2099 for fortinet-fortigate with sumo-logic-siem), whatever the
\* endpoints' realmOptimization, and returns the override's note.
C4_OverrideVerbatim ==
    (OverrideApplies /\ result.status # "none") =>
        /\ result.status = "returned"
        /\ result.value.averageOptimization = Rat(2099, 10000)
        /\ result.value.averageOptimization =
              combinationOverrides["fortinet-fortigate::sumo-logic-siem"].averageOptimization
        /\ result.value.calibrationNote =
              combinationOverrides["fortinet-fortigate::sumo-logic-siem"].note
        /\ result.value.calibrationNote # ""

C4_Witness ==
    /\ OverrideApplies
    /\ selectedSources[1].realmOptimization = Rat(9, 10)
    /\ destination.realmOptimization = Rat(9, 10)
    /\ result.status = "returned"
    /\ result.value.averageOptimization = Rat(2099, 10000)

\* C5: with two or more sources selected, calculate never applies an
\* override, even if a selected source has one registered with the
\* destination: averageOptimization is the capped blended mean and the
\* calibration note is empty.
C5_NoOverrideForMultipleSources ==
    (Len(selectedSources) >= 2 /\ result.status # "none") =>
        /\ result.status = "returned"
        /\ result.value.averageOptimization =
              RatMin(MAX_REALM_OPTIMIZATION,
                     RatDiv(RatAdd(MeanOptimization(selectedSources),
                                   destination.realmOptimization), Num(2)))
        /\ result.value.calibrationNote = ""

C5_Witness ==
    /\ Len(selectedSources) >= 2
    /\ \E i \in 1..Len(selectedSources) :
          <<selectedSources[i].id, destination.id>> \in RegisteredPairs
    /\ selectedSources[1].id = "fortinet-fortigate"
    /\ result.status = "returned"
    /\ result.value.calibrationNote = ""

\* C6: the averageOptimization returned by calculate is at most
\* maxRealmOptimization (0.75), also when source and destination
\* optimizations are both above the cap (0.9 each).
C6_OptimizationCapped ==
    result.status = "returned" =>
        RatLessEq(result.value.averageOptimization, Rat(3, 4))

C6_Witness ==
    /\ Len(selectedSources) >= 1
    /\ \A i \in 1..Len(selectedSources) : selectedSources[i].realmOptimization = Rat(9, 10)
    /\ destination.realmOptimization = Rat(9, 10)
    /\ ~OverrideApplies
    /\ result.status = "returned"
    /\ result.value.averageOptimization = Rat(3, 4)

\* C7: when no override applies, averageOptimization is
\* min(maxRealmOptimization, (combinedSourceOptimization + destination
\* optimization) / 2) with combinedSourceOptimization the value returned by
\* summarizeSources: the source aggregate and the destination weigh equally
\* whatever the number of sources.
C7_BlendFormula ==
    (/\ ~OverrideApplies
     /\ summary.status = "returned"
     /\ result.status # "none") =>
        /\ result.status = "returned"
        /\ result.value.averageOptimization =
              RatMin(Rat(3, 4),
                     RatDiv(RatAdd(summary.value.realmOptimization,
                                   destination.realmOptimization), Num(2)))

C7_Witness ==
    /\ Len(selectedSources) = 2
    /\ selectedSources[1].realmOptimization # selectedSources[2].realmOptimization
    /\ summary.status = "returned"
    /\ result.status = "returned"
    /\ RatLess(result.value.averageOptimization, Rat(3, 4))

\* C8: monthlyEvents = dailyTraffic * 30, providerRatePerMillion = combined
\* source rate + destination rate, legacyRatePerMillion = providerRate + 12
\* and standardCost = (monthlyEvents / 1,000,000) * legacyRatePerMillion; the
\* overhead enters the baseline only and the optimization does not affect it.
C8_StandardCost ==
    result.status = "returned" =>
        /\ result.value.monthlyEvents = RatMul(dailyTraffic, Num(30))
        /\ result.value.providerRatePerMillion =
              RatAdd(MeanCost(selectedSources), destination.costPerMillionEvents)
        /\ result.value.legacyRatePerMillion =
              RatAdd(result.value.providerRatePerMillion, Num(12))
        /\ result.value.standardCost =
              RatMul(RatDiv(result.value.monthlyEvents, Num(1000000)),
                     result.value.legacyRatePerMillion)
        /\ result.value.standardCost =
              RatMul(RatMul(RatDiv(dailyTraffic, Num(1000000)), Num(30)),
                     RatAdd(RatAdd(MeanCost(selectedSources),
                                   destination.costPerMillionEvents), Num(12)))

C8_Witness ==
    /\ result.status = "returned"
    /\ Len(selectedSources) = 2
    /\ dailyTraffic = Num(2500000)
    /\ RatGreater(result.value.standardCost, Num(0))
    /\ RatGreater(result.value.averageOptimization, Num(0))

\* C9: optimizedRatePerMillion = providerRatePerMillion * (1 - average
\* optimization), realmCost = (monthlyEvents / 1,000,000) * (optimizedRate +
\* 7.5) and savings = standardCost - realmCost; the Realm cost carries the
\* platform fee and never the legacy overhead.
C9_RealmCost ==
    result.status = "returned" =>
        /\ result.value.optimizedRatePerMillion =
              RatMul(result.value.providerRatePerMillion,
                     RatSub(Num(1), result.value.averageOptimization))
        /\ result.value.realmCost =
              RatMul(RatDiv(result.value.monthlyEvents, Num(1000000)),
                     RatAdd(result.value.optimizedRatePerMillion, Rat(15, 2)))
        /\ result.value.savings =
              RatSub(result.value.standardCost, result.value.realmCost)

C9_Witness ==
    /\ result.status = "returned"
    /\ dailyTraffic = Num(1000000)
    /\ RatGreater(result.value.realmCost, Num(0))
    /\ RatGreater(result.value.savings, Num(0))

\* C10: with dailyTraffic = 0, monthlyEvents, standardCost, realmCost and
\* savingsPercentage are all 0; in general savingsPercentage is
\* savings / standardCost * 100 when standardCost > 0 and exactly 0
\* otherwise, never NaN or the result of a division by zero.
C10_SavingsPercentage ==
    result.status = "returned" =>
        /\ dailyTraffic = Num(0) =>
              /\ result.value.monthlyEvents = Num(0)
              /\ result.value.standardCost = Num(0)
              /\ result.value.realmCost = Num(0)
              /\ result.value.savingsPercentage = Num(0)
        /\ RatGreater(result.value.standardCost, Num(0)) =>
              RatMul(result.value.savingsPercentage, result.value.standardCost)
                 = RatMul(result.value.savings, Num(100))
        /\ ~RatGreater(result.value.standardCost, Num(0)) =>
              result.value.savingsPercentage = Num(0)
        /\ IsFinite(result.value.savingsPercentage)

C10_Witness ==
    /\ result.status = "returned"
    /\ dailyTraffic = Num(0)
    /\ result.value.standardCost = Num(0)
    /\ result.value.savingsPercentage = Num(0)

\* C11 (as claimed): calculate with dailyTraffic <= 0 and at least one source
\* does not raise and returns standardCost = 0, realmCost = 0 and savings = 0.
C11_NonPositiveTrafficIsZeroCost ==
    (/\ Len(selectedSources) >= 1
     /\ ~RatGreater(dailyTraffic, Num(0))
     /\ result.status # "none") =>
        /\ result.status = "returned"
        /\ result.value.standardCost = Num(0)
        /\ result.value.realmCost = Num(0)
        /\ result.value.savings = Num(0)

\* C12 (as claimed): some valid inputs with a positive daily volume make
\* calculate return savings < 0.
C12_NegativeSavingsExist ==
    result.status = "returned" =>
    \E sources \in SourceLists, dest \in Endpoint(DestinationIds), traffic \in TrafficValues :
        /\ Len(sources) >= 1
        /\ RatGreater(traffic, Num(0))
        /\ RatLess(calculate(sources, dest, traffic).value.savings, Num(0))

\* C12 (amended): for valid endpoints and every positive daily volume the
\* savings returned by calculate are positive and realmCost is below
\* standardCost, because the platform fee per million (7.5) is below the
\* legacy overhead per million (12); savings are negative only for a negative
\* dailyTraffic, and then they are returned unclamped.
C12_SavingsPositiveForPositiveVolume ==
    result.status = "returned" =>
        /\ RatGreater(dailyTraffic, Num(0)) =>
              /\ RatGreater(result.value.savings, Num(0))
              /\ RatLess(result.value.realmCost, result.value.standardCost)
        /\ RatLess(result.value.savings, Num(0)) => RatLess(dailyTraffic, Num(0))

C12_Witness ==
    /\ result.status = "returned"
    /\ dailyTraffic = Num(1)
    /\ \A i \in 1..Len(selectedSources) : selectedSources[i].realmOptimization = Num(0)
    /\ destination.realmOptimization = Num(0)
    /\ RatGreater(result.value.savings, Num(0))


-----------------------------------------------------------------------------
(* Properties of the catalog and traffic-profile functions (SpecProfiles) *)

RatAbs(a) == IF RatLess(a, Num(0)) THEN RatNeg(a) ELSE a

IdInList(list, id) == \E i \in DOMAIN list : list[i].id = id

OwnCategory(endpoint) ==
    IF endpoint.trafficCategory.defined
    THEN endpoint.trafficCategory.value
    ELSE "identity"

\* C13: getEndpoint(list, id) returns an endpoint of the list whose id is id,
\* and raises when no endpoint of the list has that id; it never returns a
\* placeholder.
C13_GetEndpointFindsOrRaises ==
    (request.op = "getEndpoint" /\ response.status # "none") =>
        IF IdInList(request.list, request.id)
        THEN /\ response.status = "returned"
             /\ response.value.id = request.id
             /\ \E i \in DOMAIN request.list : request.list[i] = response.value
        ELSE response.status = "threw"

C13_Witness ==
    /\ request.op = "getEndpoint"
    /\ Len(request.list) = 2
    /\ ~IdInList(request.list, request.id)
    /\ response.status = "threw"

\* C14: getTrafficRecommendation takes the baseline of the cell (the endpoint's
\* own category, the tier), with 'identity' only for an endpoint without a
\* category, and raises when that cell does not exist, a category without a
\* baseline row included.
C14_RecommendationUsesOwnCell ==
    (/\ request.op = "getTrafficRecommendation"
     /\ request.size \in OrganizationSizeKeys
     /\ response.status # "none") =>
        IF OwnCategory(request.endpoint) \in DOMAIN categoryBaselines
        THEN /\ response.status = "returned"
             /\ response.value.category = OwnCategory(request.endpoint)
             /\ response.value.averageEventSizeKb =
                    categoryBaselines[OwnCategory(request.endpoint)][request.size]
                        .averageEventSizeKb
        ELSE response.status = "threw"

\* C15: getOrganizationSizeMeta returns the meta of each of the three tiers and
\* raises for any other key; getTrafficRecommendation raises the same error
\* for an unknown tier, whatever the endpoint's category.
C15_UnknownTierRaises ==
    /\ (request.op = "getOrganizationSizeMeta" /\ response.status # "none") =>
          IF request.size \in OrganizationSizeKeys
          THEN /\ response.status = "returned"
               /\ response.value.id = request.size
               /\ \E i \in DOMAIN ORGANIZATION_SIZE_METAS :
                     ORGANIZATION_SIZE_METAS[i] = response.value
          ELSE /\ response.status = "threw"
               /\ response.message = "Unknown organization size key: " \o request.size
    /\ (/\ request.op = "getTrafficRecommendation"
        /\ request.size \notin OrganizationSizeKeys
        /\ response.status # "none") =>
          /\ response.status = "threw"
          /\ response.message = "Unknown organization size key: " \o request.size

C15_Witness ==
    /\ request.op = "getTrafficRecommendation"
    /\ request.size = "hundreds"
    /\ request.endpoint.trafficCategory.value = "database"
    /\ response.status = "threw"

\* C16: for every category and tier, the recommendation's dailyEvents times
\* averageEventSizeKb divided by 1024 * 1024 is within 0.01 GB of its
\* dailyGigabytes (both sides are compared in KB: the difference of
\* dailyEvents * averageEventSizeKb and dailyGigabytes * 1024 * 1024 is at
\* most 0.01 * 1024 * 1024).
C16_EventsRoundTripToGigabytes ==
    (request.op = "getTrafficRecommendation" /\ response.status = "returned") =>
        RatLessEq(
            RatAbs(RatSub(RatMul(response.value.dailyEvents,
                                 response.value.averageEventSizeKb),
                          RatMul(response.value.dailyGigabytes, KB_PER_GIGABYTE))),
            RatMul(Rat(1, 100), KB_PER_GIGABYTE))

C16_Witness ==
    /\ request.op = "getTrafficRecommendation"
    /\ response.status = "returned"
    /\ response.value.category = "network-security"
    /\ response.value.dailyGigabytes = Num(6500)
    /\ response.value.dailyEvents # RatDiv(RatMul(Num(6500), KB_PER_GIGABYTE), Rat(14, 100))

\* C18: describeTrafficRecommendation shows the daily volume in KB below 1 GB,
\* in GB from 1 GB up to but not including 1 TB (1024 GB), and in TB from 1 TB.
C18_VolumeUnitByMagnitude ==
    (request.op = "describeTrafficRecommendation" /\ response.status = "returned") =>
        response.value.volumeUnit =
            IF RatLess(request.recommendation.dailyGigabytes, Num(1)) THEN "KB"
            ELSE IF RatLess(request.recommendation.dailyGigabytes, Num(1024)) THEN "GB"
            ELSE "TB"


-----------------------------------------------------------------------------
(* Properties of the page (SpecUi) *)

RatEq(a, b) == IsFinite(a) /\ IsFinite(b) /\ SignOf(RatSub(a, b)) = 0

\* a === b for numbers: equal finite values, or the same infinity
SameNumber(a, b) == IF IsFinite(a) /\ IsFinite(b) THEN RatEq(a, b) ELSE a = b /\ a # NaN

\* 1,048,576 = 1 * 2^20 and 1,073,741,824 = 1024 * 2^20
BinaryKbPerGigabyte == [h |-> [n |-> 1, d |-> 1], l |-> [n |-> 0, d |-> 1]]

BinaryKbPerTerabyte == [h |-> [n |-> 1024, d |-> 1], l |-> [n |-> 0, d |-> 1]]

\* C17: a GB value stands for 1,048,576 KB per unit and a TB value for
\* 1,073,741,824 KB per unit: dailyEvents is the value times the KB per unit
\* divided by the average event size; an events value goes to calculate
\* unchanged.
C17_BinaryUnitConversion ==
    ui.lastSnapshot.defined =>
        /\ ui.lastSnapshot.value.trafficUnit = "events" =>
              ui.lastSnapshot.value.dailyEvents = ui.lastSnapshot.value.dailyInput
        /\ ui.lastSnapshot.value.trafficUnit = "gigabytes" =>
              SameNumber(RatMul(ui.lastSnapshot.value.dailyEvents,
                           ui.lastSnapshot.value.averageEventSizeKb),
                    RatMul(ui.lastSnapshot.value.dailyInput, BinaryKbPerGigabyte))
        /\ ui.lastSnapshot.value.trafficUnit = "terabytes" =>
              SameNumber(RatMul(ui.lastSnapshot.value.dailyEvents,
                           ui.lastSnapshot.value.averageEventSizeKb),
                    RatMul(ui.lastSnapshot.value.dailyInput, BinaryKbPerTerabyte))
        /\ SameNumber(ui.lastSnapshot.value.result.monthlyEvents,
                 RatMul(ui.lastSnapshot.value.dailyEvents, Num(30)))

C17_Witness ==
    /\ ui.lastSnapshot.defined
    /\ ui.lastSnapshot.value.trafficUnit = "terabytes"
    /\ ui.lastSnapshot.value.dailyInput = Num(10)
    /\ ui.lastSnapshot.value.averageEventSizeKb = Num(2)

\* A step of a listener that neither changes the organization size nor the
\* unit, other than typing into the daily volume field
KeepsTrafficStep ==
    \/ \E id \in CatalogIds(sourceCatalog) : SourceSelectChange(id)
    \/ \E id \in CatalogIds(destinationCatalog) : DestinationSelectChange(id)
    \/ \E text \in TypedEventSize : EventSizeInputInput(text)

\* The same, other than typing into the event size field
KeepsEventSizeStep ==
    \/ \E id \in CatalogIds(sourceCatalog) : SourceSelectChange(id)
    \/ \E id \in CatalogIds(destinationCatalog) : DestinationSelectChange(id)
    \/ \E text \in TypedTraffic : TrafficInputInput(text)

ValidInputs ==
    /\ \/ ui.trafficInput.kind = "empty"
       \/ /\ ui.trafficInput.kind = "number"
          /\ ~RatLess(ui.trafficInput.value, Num(0))
    /\ (ui.trafficUnit # "events" /\ ui.hasEventSizeInput) =>
          \/ ui.eventSizeInput.kind = "empty"
          \/ /\ ui.eventSizeInput.kind = "number"
             /\ RatGreater(ui.eventSizeInput.value, Num(0))

FreshRecommendation ==
    getTrafficRecommendation(getSelectedSources(ui)[1], ui.organizationSize).value

CurrentEventSize ==
    IF /\ ui.trafficUnit # "events"
       /\ ui.hasEventSizeInput
       /\ ui.eventSizeInput.kind = "number"
    THEN ui.eventSizeInput.value
    ELSE FreshRecommendation.averageEventSizeKb

CurrentTraffic == IF ui.trafficInput.kind = "empty" THEN Num(0) ELSE ui.trafficInput.value

CurrentDailyEvents ==
    IF ui.trafficUnit = "events" THEN CurrentTraffic
    ELSE RatDiv(RatMul(CurrentTraffic,
                       IF ui.trafficUnit = "gigabytes"
                       THEN BinaryKbPerGigabyte
                       ELSE BinaryKbPerTerabyte),
                CurrentEventSize)

\* C20: whenever at least one source and a destination are selected and the
\* inputs are valid, lastSnapshot holds the result of calculate on the
\* sources, destination and daily events of the page as it is now, and the
\* recommendation of the first selected source and the current organization
\* size; the cached currentRecommendation is never stale.
C20_SnapshotIsCurrent ==
    (ui.selectedIds # {} /\ ui.destinationId # "" /\ ValidInputs) =>
        /\ ui.lastSnapshot.defined
        /\ ui.lastSnapshot.value.sources = getSelectedSources(ui)
        /\ ui.lastSnapshot.value.destination.id = ui.destinationId
        /\ ui.lastSnapshot.value.recommendation = FreshRecommendation
        /\ ui.currentRecommendation = Some(FreshRecommendation)
        /\ ui.lastSnapshot.value.result =
              calculate(getSelectedSources(ui),
                        getEndpoint(destinationCatalog, ui.destinationId).value,
                        CurrentDailyEvents).value

C20_Witness ==
    /\ ui.selectedIds = {"okta"}
    /\ ui.destinationId = "sumo-logic-siem"
    /\ ui.organizationSize = "over-5000-gb"
    /\ ui.trafficUnit = "events"
    /\ ui.userTrafficEdited
    /\ ui.lastSnapshot.defined
    /\ ui.lastSnapshot.value.recommendation.dailyGigabytes = Num(6500)
    /\ ui.lastSnapshot.value.dailyInput = Num(10)

\* C21: for any sequence of UI events, update calls calculate only with at
\* least one selected source, a selected destination and a finite
\* dailyTraffic >= 0 that was derived from a positive event size: never with
\* an empty source list, a NaN, infinite or negative volume.
C21_CalculateCalledWithValidArguments ==
    ui.calculateCall.defined =>
        /\ Len(ui.calculateCall.value.sources) >= 1
        /\ ui.calculateCall.value.destination.id # ""
        /\ IsFinite(ui.calculateCall.value.dailyTraffic)
        /\ ~RatLess(ui.calculateCall.value.dailyTraffic, Num(0))
        /\ ui.lastSnapshot.defined
        /\ RatGreater(ui.lastSnapshot.value.averageEventSizeKb, Num(0))

SourceAndDestinationSelected == ui.selectedIds # {} /\ ui.destinationId # ""

\* The traffic field holds a negative or a non-numeric value
TrafficFieldInvalid ==
    \/ ui.trafficInput.kind = "text"
    \/ ui.trafficInput.kind = "number" /\ RatLess(ui.trafficInput.value, Num(0))

\* The traffic field holds a non-negative number
TrafficFieldValid ==
    /\ ui.trafficInput.kind = "number"
    /\ IsFinite(ui.trafficInput.value)
    /\ ~RatLess(ui.trafficInput.value, Num(0))

\* update does not read the event-size field, or the field is blank or holds
\* a positive number
EventSizeFieldAccepted ==
    \/ ui.trafficUnit = "events"
    \/ ~ui.hasEventSizeInput
    \/ ui.eventSizeInput.kind = "empty"
    \/ /\ ui.eventSizeInput.kind = "number"
       /\ RatGreater(ui.eventSizeInput.value, Num(0))

Blocked ==
    /\ ~ui.outputs.shown
    /\ ~ui.lastSnapshot.defined
    /\ ui.exportDisabled

Recomputed ==
    /\ ui.trafficError = ""
    /\ ui.outputs.shown
    /\ ui.lastSnapshot.defined
    /\ ~ui.exportDisabled

\* C22 as stated: with a source and a destination selected, a negative or
\* non-numeric traffic value shows the validation error, resets every output,
\* clears the snapshot and disables the export button; a valid non-negative
\* number clears the error, recomputes the outputs and enables the button.
C22_InvalidTrafficBlocksValidTrafficRestores ==
    SourceAndDestinationSelected =>
        /\ TrafficFieldInvalid =>
              ui.trafficError = "Enter a positive number for daily volume." /\ Blocked
        /\ TrafficFieldValid => Recomputed

\* C22, amended: the same, but a valid traffic value restores the outputs
\* and the button only if the event-size field is accepted too; otherwise
\* the event-size error is shown and the page stays blocked.
C22_ValidTrafficRestoresUnlessEventSizeRejected ==
    SourceAndDestinationSelected =>
        /\ TrafficFieldInvalid =>
              ui.trafficError = "Enter a positive number for daily volume." /\ Blocked
        /\ (TrafficFieldValid /\ EventSizeFieldAccepted) => Recomputed
        /\ (TrafficFieldValid /\ ~EventSizeFieldAccepted) =>
              ui.trafficError = "Enter a positive average event size in KB." /\ Blocked

C22_Witness ==
    /\ SourceAndDestinationSelected
    /\ ui.userTrafficEdited
    /\ ui.trafficInput = NumberText(Num(10))
    /\ ui.userEventSizeEdited
    /\ EventSizeFieldAccepted
    /\ ui.trafficUnit = "gigabytes"
    /\ Recomputed

\* C23: from the initial page (no source, no destination, traffic field
\* untouched), once a destination and then a source are selected, the traffic
\* field is non-empty, holding the recommended volume for the selected
\* organization size, and the Realm cost output is a computed value, not '--'.
\* This holds in every state with a source and a destination in which the
\* user has typed into neither field.
C23_SelectionPrefillsAndComputes ==
    (SourceAndDestinationSelected /\ ~ui.userTrafficEdited /\ ~ui.userEventSizeEdited) =>
        /\ ui.trafficInput.kind = "number"
        /\ ui.trafficInput =
              recommendedTrafficText(
                  getTrafficRecommendation(getSelectedSources(ui)[1],
                                           ui.organizationSize).value,
                  ui.trafficUnit)
        /\ ui.outputs.shown
        /\ IsFinite(ui.outputs.realmCost)

\* The page right after the first destination and the first source were
\* selected
C23_Witness ==
    \E hasEventSizeInput \in BOOLEAN :
        \E chosen \in {[initialize(Page(hasEventSizeInput)) EXCEPT !.destinationId = "splunk-es"]} :
            \E toggled \in {[update(chosen) EXCEPT !.selectedIds = {"fortinet-fortigate"}]} :
                /\ ui = update(applyRecommendation(toggled, None(FALSE),
                                                   Some(~toggled.userEventSizeEdited)))
                /\ ui.trafficInput = NumberText(Num(750))
                /\ ui.outputs.shown

\* The page after initialize
InitialPages == {initialize(Page(hasEventSizeInput)) : hasEventSizeInput \in BOOLEAN}

\* The page after the first destination was selected
PagesWithDestination ==
    {update([page EXCEPT !.destinationId = id]) :
        page \in InitialPages, id \in CatalogIds(destinationCatalog)}

\* The page after the first destination and then the first source were
\* selected
PagesWithDestinationAndSource ==
    {update(applyRecommendation([page EXCEPT !.selectedIds = {id}], None(FALSE), Some(TRUE))) :
        page \in PagesWithDestination, id \in CatalogIds(sourceCatalog)}

\* C24: after initialization, and still after the first destination and the
\* first source are selected with no unit change by the user, the selected
\* traffic unit is terabytes.
C24_DefaultUnitIsTerabytes ==
    ui \in (InitialPages \cup PagesWithDestination \cup PagesWithDestinationAndSource) =>
        ui.trafficUnit = "terabytes"

\* 10 TB per day typed for the given selection, the event size accepted
TenTerabytesFor(ids) ==
    /\ ui.selectedIds = ids
    /\ ui.destinationId = "splunk-es"
    /\ ui.trafficUnit = "terabytes"
    /\ ui.trafficInput = NumberText(Num(10))
    /\ EventSizeFieldAccepted

\* x = k for a number x and an integer k, without multiplying the high limb
EqualsInteger(x, k) ==
    /\ IsFinite(x)
    /\ QDiv(QAdd(x.l, [n |-> -k, d |-> 1]), [n |-> LimbBase, d |-> 1]) = QNeg(x.h)

Yields(standard, realm, saved, percentage) ==
    /\ ui.lastSnapshot.defined
    /\ ui.lastSnapshot.value.result.averageOptimization = Rat(percentage, 100)
    /\ EqualsInteger(ui.lastSnapshot.value.result.standardCost, standard)
    /\ EqualsInteger(ui.lastSnapshot.value.result.realmCost, realm)
    /\ EqualsInteger(ui.lastSnapshot.value.result.savings, saved)

\* C25: with source fortinet-fortigate, destination splunk-es and 10 TB per
\* day the calculator yields standardCost 5,000,000, realmCost 210,000,
\* savings 4,790,000 and a reduction of 70%; with okta as a second source the
\* standardCost stays 5,000,000 and the result is realmCost 280,000, savings
\* 4,720,000 and a reduction of 60%.
C25_TenTerabyteFixture ==
    /\ TenTerabytesFor({"fortinet-fortigate"}) => Yields(5000000, 210000, 4790000, 70)
    /\ TenTerabytesFor({"fortinet-fortigate", "okta"}) => Yields(5000000, 280000, 4720000, 60)

\* calculate applied an override: the result carries the override's note
OverrideWasApplied ==
    /\ result.status = "returned"
    /\ result.value.calibrationNote # ""

\* C26: the override registered for a (source id, destination id) pair is
\* applied by calculate only when the single selected source's id and the
\* destination's id are exactly that pair; no other pair of ids, with or
\* without the separator '::' in them, resolves to the same override.
C26_OverrideOnlyForRegisteredPair ==
    /\ OverrideWasApplied =>
          /\ Len(selectedSources) = 1
          /\ <<selectedSources[1].id, destination.id>> \in RegisteredPairs
          /\ result.value.averageOptimization = Rat(2099, 10000)
    /\ (result.status # "none" /\ ~OverrideApplies) =>
          /\ result.status = "returned"
          /\ result.value.calibrationNote = ""
          /\ result.value.averageOptimization = Rat(3, 4)

\* A pair whose ids hold the separator and the parts of the registered key
\* gets no override
C26_Witness ==
    /\ selectedSources[1].id = "fortinet-fortigate::"
    /\ destination.id = "::sumo-logic-siem"
    /\ result.status = "returned"
    /\ result.value.calibrationNote = ""

\* The organization-size listener ran with a source selected
SizeChangedWithSource ==
    /\ ui'.organizationSize # ui.organizationSize
    /\ ui.selectedIds # {}

\* C27: an organization-size change made while at least one source is
\* selected overwrites the traffic field with the recommended volume of the
\* new tier in the current unit and clears the user-edited flag of that
\* field, also when the user had edited the field before.
C27_SizeChangeOverwritesTraffic ==
    [][SizeChangedWithSource =>
          /\ ui'.trafficInput =
                recommendedTrafficText(
                    getTrafficRecommendation(getSelectedSources(ui)[1],
                                             ui'.organizationSize).value,
                    ui.trafficUnit)
          /\ ~ui'.userTrafficEdited
          /\ ui'.trafficUnit = ui.trafficUnit
          /\ ui'.selectedIds = ui.selectedIds]_vars

\* After a change to the second tier with a source selected: the field holds
\* the volume of that tier, none of the typed values, and is marked as not
\* edited
C27_Witness ==
    /\ ui.selectedIds # {}
    /\ ui.organizationSize = "1000-5000-gb"
    /\ ui.trafficUnit = "gigabytes"
    /\ ui.trafficInput = NumberText(Num(3000))
    /\ ~ui.userTrafficEdited

\* C28: in every reachable state, also while an export is in flight and input
\* events invalidate the scenario, the export button is enabled only while a
\* result snapshot exists.
C28_ExportEnabledOnlyWithSnapshot ==
    ~ui.exportDisabled => ui.lastSnapshot.defined

\* C29: at most one PDF export is in progress at any time; a click that
\* arrives during an export starts no second one, and when an export
\* finishes, saved or failed, the in-progress marker is cleared, so that a
\* later click starts a new export.
C29_SingleExportInFlight ==
    /\ ui.exportsInFlight \in {0, 1}
    /\ ui.exportLoading <=> ui.exportsInFlight = 1
    /\ (~ui.exportLoading /\ ui.lastSnapshot.defined) =>
          handleExportPdf(ui).exportsInFlight = 1

\* An earlier export has failed (the library could not be loaded), a later
\* click has started a new export, and update has enabled the button again
\* in the meantime, so that a further click can arrive
C29_Witness ==
    /\ ui.jsPdf = "unavailable"
    /\ ui.exportLoading
    /\ ui.exportsInFlight = 1
    /\ ~ui.exportDisabled

\* The unit is gigabytes, the page has the event-size field, and both fields
\* hold what applyRecommendation wrote, not what the user typed
AutoFilledGigabytes ==
    /\ SourceAndDestinationSelected
    /\ ui.trafficUnit = "gigabytes"
    /\ ui.hasEventSizeInput
    /\ ~ui.userTrafficEdited
    /\ ~ui.userEventSizeEdited
    /\ ui.trafficInput.kind = "number"
    /\ ui.eventSizeInput.kind = "number"

\* C30: with the unit gigabytes, the event-size field present and both fields
\* auto-filled from the recommendation, the dailyEvents that update passes to
\* calculate is the recommendation's dailyEvents up to integer rounding, for
\* every traffic category and organization-size tier.
C30_AutoFilledEventsMatchRecommendation ==
    AutoFilledGigabytes =>
        /\ ui.calculateCall.defined
        /\ RatRound(ui.calculateCall.value.dailyTraffic) =
              getTrafficRecommendation(getSelectedSources(ui)[1],
                                       ui.organizationSize).value.dailyEvents

====
